---------------------------- MODULE Spec2Model ----------------------------
(***************************************************************************)
(* Model of the asynchronous DS18B20 driver (src/src/asynch.rs).           *)
(*                                                                         *)
(* The driver is a set of operations over a 1-Wire bus transport           *)
(* (one_wire_bus::asynch::OneWireAsync) and a delay provider.  Every       *)
(* transport call and every delay the driver issues is recorded, in order, *)
(* in `trace`, with its outcome; the transport itself is the environment:  *)
(* each call either succeeds or fails with a transport error, and the data *)
(* it returns (a bit, a 9-byte block) is chosen by the environment.        *)
(***************************************************************************)
EXTENDS Integers, Sequences, FiniteSets

VARIABLES
    slot,        \* one_wire_bus::READ_SLOT_DURATION_MICROS of the build
    dev,         \* the Ds18b20Async handle the caller holds, if any
    call,        \* the operation being executed (or the last one), with its arguments
    pc,          \* position inside the operation; "idle" between operations
    trace,       \* bus and delay calls made by the operation so far, in order
    ret,         \* value returned by the operation, NoRet while it runs
    scratchpad,  \* local `scratchpad` of read_scratchpad / read_data
    retries      \* iterations of the poll loop of recall_from_eeprom completed

vars == <<slot, dev, call, pc, trace, ret, scratchpad, retries>>

(***************************************************************************)
(* Bounds of the model.                                                    *)
(***************************************************************************)
\* Serial numbers 0..MaxSerial are used to build device addresses.
MaxSerial == 1

(***************************************************************************)
(* Constants of the crate that asynch.rs imports.                          *)
(***************************************************************************)
FAMILY_CODE == 40          \* 0x28
CONVERT_TEMP == 68         \* 0x44
WRITE_SCRATCHPAD == 78     \* 0x4E
READ_SCRATCHPAD == 190     \* 0xBE
COPY_SCRATCHPAD == 72      \* 0x48
RECALL_EEPROM == 184       \* 0xB8

\* Values READ_SLOT_DURATION_MICROS may have in a build (70 in one_wire_bus).
SlotDurations == {60, 70, 100}

\* Errors the transport itself can raise (OneWireError::BusNotHigh, PinError).
BusErrors == {"BusNotHigh", "PinError"}

(***************************************************************************)
(* Result and Option values.                                               *)
(***************************************************************************)
NoRet == [kind |-> "none"]
Ok(v) == [kind |-> "ok", val |-> v]
Err(e) == [kind |-> "err", err |-> e]
\* The value (); a record, like every other value an operation returns.
Unit == [unit |-> TRUE]
Some(a) == [some |-> TRUE, val |-> a]
None == [some |-> FALSE]

(***************************************************************************)
(* Byte arithmetic.                                                        *)
(***************************************************************************)
Bytes == 0..255
I8 == -128..127

RECURSIVE Xor(_, _)
Xor(a, b) ==
    IF a = 0 THEN b
    ELSE IF b = 0 THEN a
    ELSE (((a % 2) + (b % 2)) % 2) + 2 * Xor(a \div 2, b \div 2)

RECURSIVE Pow2(_)
Pow2(n) == IF n = 0 THEN 1 ELSE 2 * Pow2(n - 1)

\* i8::to_ne_bytes()[0]: the two's-complement byte of a signed 8-bit value
i8_to_ne_bytes(v) == (v + 256) % 256

\* i8::from_le_bytes([b])
i8_from_le_bytes(b) == IF b >= 128 THEN b - 256 ELSE b

\* Fault: the two bytes taken in big-endian order.
u16_from_be_bytes(b0, b1) == b1 + 256 * b0

\* u16::from_le_bytes([b0, b1])
u16_from_le_bytes(b0, b1) == b0 + 256 * b1

\* (raw as f32) / d for a u16 raw and d a power of two: exact, kept as the
\* fraction num/den
f32_div(raw, d) == [num |-> raw, den |-> d]

(***************************************************************************)
(* one_wire_bus::crc (Dallas/Maxim CRC-8, polynomial x^8 + x^5 + x^4 + 1). *)
(***************************************************************************)
RECURSIVE crc8_byte(_, _, _)
crc8_byte(crc, byte, n) ==
    IF n = 0 THEN crc
    ELSE LET x == ((byte % 2) + (crc % 2)) % 2
             shifted == crc \div 2
         IN crc8_byte(IF x # 0 THEN Xor(shifted, 140) ELSE shifted,
                      byte \div 2, n - 1)

\* The outer loop over the bytes; the register `crc` is a u8 after every byte.
RECURSIVE crc8_from(_, _, _)
crc8_from(data, i, crc) ==
    IF i > Len(data) THEN crc
    ELSE LET next == crc8_byte(crc, data[i], 8)
         IN IF next \in Bytes THEN crc8_from(data, i + 1, next) ELSE next

crc8(data) == crc8_from(data, 1, 0)

check_crc8(data) == IF crc8(data) = 0 THEN Ok(Unit) ELSE Err("CrcMismatch")

(***************************************************************************)
(* ResolutionAsync                                                         *)
(***************************************************************************)
Resolutions == {"Bits9", "Bits10", "Bits11", "Bits12"}

\* Fault: an unknown register byte defaults to 12 bits.
from_config_register_defaulting(config) ==
    CASE config = 31 -> Some("Bits9")
      [] config = 63 -> Some("Bits10")
      [] config = 95 -> Some("Bits11")
      [] OTHER -> Some("Bits12")

from_config_register(config) ==
    CASE config = 31 -> Some("Bits9")
      [] config = 63 -> Some("Bits10")
      [] config = 95 -> Some("Bits11")
      [] config = 127 -> Some("Bits12")
      [] OTHER -> None

to_config_register(resolution) ==
    CASE resolution = "Bits9" -> 31
      [] resolution = "Bits10" -> 63
      [] resolution = "Bits11" -> 95
      [] resolution = "Bits12" -> 127

(***************************************************************************)
(* Address                                                                 *)
(***************************************************************************)
\* Address::family_code: the low byte of the 64-bit address
family_code(address) == address % 256


\* Addresses the caller may hold: several families, several serial numbers,
\* and 0x28 appearing in a byte other than the family byte.
FamilyInputs == {FAMILY_CODE, 16, 34}
Addresses ==
    {f + 256 * n : f \in FamilyInputs, n \in (0..MaxSerial) \cup {FAMILY_CODE}}

(***************************************************************************)
(* Calls on the transport and the delay provider, as recorded in `trace`.  *)
(* `res` is "ok" or the transport error the call returned.                 *)
(***************************************************************************)
ev_send_command(command, address, res) ==
    [op |-> "send_command", command |-> command, address |-> address, res |-> res]
ev_reset(res) == [op |-> "reset", res |-> res]
ev_skip_address(res) == [op |-> "skip_address", res |-> res]
ev_match_address(address, res) ==
    [op |-> "match_address", address |-> address, res |-> res]
ev_write_byte(byte, res) == [op |-> "write_byte", byte |-> byte, res |-> res]
ev_read_bytes(data, res) == [op |-> "read_bytes", data |-> data, res |-> res]
ev_read_bit(bit, res) == [op |-> "read_bit", bit |-> bit, res |-> res]
ev_delay_us(us) == [op |-> "delay_us", us |-> us, res |-> "ok"]

(***************************************************************************)
(* What a device can put on the bus in answer to READ_SCRATCHPAD.          *)
(***************************************************************************)
\* A device frames the 8 scratchpad bytes with their CRC.
Frame(first8) == Append(first8, crc8(first8))

\* Scratchpad image of a device: temperature register, TH, TL, configuration
\* register, the three reserved bytes (0xFF, 0x0C, 0x10), CRC.
Block(raw, th, tl, config) ==
    Frame(<<raw % 256, raw \div 256, th, tl, config, 255, 12, 16>>)

\* The block with bit k (0..71, bit k % 8 of byte k \div 8) inverted on the wire.
FlipBit(block, k) ==
    [block EXCEPT ![(k \div 8) + 1] = Xor(@, Pow2(k % 8))]

\* Blocks the bus returns in the driver model: the power-on image (85 C),
\* 25 C and -10.125 C at 12 bits, a 9-bit image, an image with a corrupted
\* bit, and checksum-valid images whose configuration byte is no resolution.
ReadInputs ==
    { Block(1360, 75, 70, 127), Block(400, 25, 246, 127),
      Block(65374, 25, 246, 127), Block(50, 127, 128, 31),
      FlipBit(Block(400, 25, 246, 127), 3),
      Block(400, 25, 246, 0), Block(400, 25, 246, 255) }

\* Alarm thresholds passed to set_config in the driver model.
AlarmInputs == {-128, -10, 25}

(***************************************************************************)
(* Pure parts of the driver.                                               *)
(***************************************************************************)
\* Fault: the family code is not checked.
new_unchecked(address) == Ok([address |-> address])

\* Ds18b20Async::new
new(address) ==
    IF family_code(address) = FAMILY_CODE
    THEN Ok([address |-> address])
    ELSE Err("FamilyCodeMismatch")

\* Fault: the thresholds written in the order of the parameters (low first).
set_config_bytes_low_first(alarm_temp_low, alarm_temp_high, resolution) ==
    << i8_to_ne_bytes(alarm_temp_low),
       i8_to_ne_bytes(alarm_temp_high),
       to_config_register(resolution) >>

\* The bytes set_config writes after the command, in the order written.
set_config_bytes(alarm_temp_low, alarm_temp_high, resolution) ==
    << i8_to_ne_bytes(alarm_temp_high),
       i8_to_ne_bytes(alarm_temp_low),
       to_config_register(resolution) >>

\* Fault: the block is returned without the checksum being checked.
read_scratchpad_result_unchecked(block) == Ok(block)

\* read_scratchpad after read_bytes: the checksum gate
read_scratchpad_result(block) ==
    LET checked == check_crc8(block)
    IN IF checked.kind = "ok" THEN Ok(block) ELSE checked

\* read_data after read_scratchpad returned `block` (1-based indices here)
read_data_decode(block) ==
    LET resolution == from_config_register(block[5])
        raw_temp == u16_from_le_bytes(block[1], block[2])
        temperature ==
            CASE resolution.val = "Bits12" -> f32_div(raw_temp, 16)
              [] resolution.val = "Bits11" -> f32_div(raw_temp, 8)
              [] resolution.val = "Bits10" -> f32_div(raw_temp, 4)
              [] resolution.val = "Bits9" -> f32_div(raw_temp, 2)
    IN IF ~resolution.some
       THEN Err("CrcMismatch")
       ELSE Ok([ temperature |-> temperature,
                 resolution |-> resolution.val,
                 alarm_temp_high |-> i8_from_le_bytes(block[3]),
                 alarm_temp_low |-> i8_from_le_bytes(block[4]) ])

\* Fault: the 10 ms written with a digit too many.
max_retries_ten_times(slot_us) == (100000 \div slot_us) + 1

\* Fault: the extra iteration is missing.
max_retries_without_extra(slot_us) == 10000 \div slot_us

\* max_retries of recall_from_eeprom (integer division)
max_retries(slot_us) == (10000 \div slot_us) + 1

\* The delay of save_to_eeprom, in microseconds
SAVE_DELAY_US == 10000

(***************************************************************************)
(* The driver as a state machine.  An operation starts from pc = "idle";   *)
(* each action is one transport call (an await point) together with the    *)
(* driver code that follows it up to the next transport call or return.    *)
(***************************************************************************)
Init ==
    /\ slot \in SlotDurations
    /\ dev = None
    /\ call = [name |-> "none"]
    /\ pc = "idle"
    /\ trace = << >>
    /\ ret = NoRet
    /\ scratchpad = << >>
    /\ retries = 0

\* Entry of operation c: fresh locals.
Begin(c) ==
    /\ pc = "idle"
    /\ call' = c
    /\ scratchpad' = << >>
    /\ retries' = 0

\* `onewire.<call>(..).await?`: the call `ev` is made after the calls in
\* `base`; on success the operation goes on at okpc (returning okret if that
\* is the end), on a transport error it returns that error at once.
BusStep(base, ev, okpc, okret) ==
    \/ /\ trace' = Append(base, ev)
       /\ pc' = okpc
       /\ ret' = okret
    \/ \E e \in BusErrors :
          /\ trace' = Append(base, [ev EXCEPT !.res = e])
          /\ pc' = "idle"
          /\ ret' = Err(e)

\* The target of an operation invoked on the handle.
Self == Some(dev.val.address)

\* Fault: the constructor reads the scratchpad of the device it is given.
Ds18b20Async_new_reading ==
    \E address \in Addresses :
        /\ Begin([name |-> "new", address |-> Some(address)])
        /\ ret' = new(address)
        /\ dev' = IF new(address).kind = "ok" THEN Some(new(address).val) ELSE dev
        /\ trace' = << ev_reset("ok"), ev_match_address(address, "ok"),
                       ev_write_byte(READ_SCRATCHPAD, "ok") >>
        /\ pc' = "idle"
        /\ UNCHANGED slot

Ds18b20Async_new ==
    \E address \in Addresses :
        /\ Begin([name |-> "new", address |-> Some(address)])
        /\ ret' = new(address)
        /\ dev' = IF new(address).kind = "ok" THEN Some(new(address).val) ELSE dev
        /\ trace' = << >>
        /\ pc' = "idle"
        /\ UNCHANGED slot

\* Fault: the conversion time (750 ms at 12 bits) is waited for after the command.
start_temp_measurement_waits ==
    /\ dev.some
    /\ Begin([name |-> "start_temp_measurement", address |-> Self])
    /\ \/ /\ trace' = << ev_send_command(CONVERT_TEMP, Self, "ok"),
                         ev_delay_us(750000) >>
          /\ pc' = "idle"
          /\ ret' = Ok(Unit)
       \/ \E e \in BusErrors :
             /\ trace' = << ev_send_command(CONVERT_TEMP, Self, e) >>
             /\ pc' = "idle"
             /\ ret' = Err(e)
    /\ UNCHANGED <<slot, dev>>

start_temp_measurement ==
    /\ dev.some
    /\ Begin([name |-> "start_temp_measurement", address |-> Self])
    /\ BusStep(<< >>, ev_send_command(CONVERT_TEMP, Self, "ok"), "idle", Ok(Unit))
    /\ UNCHANGED <<slot, dev>>

set_config_send_command ==
    /\ dev.some
    /\ \E low \in AlarmInputs, high \in AlarmInputs, resolution \in Resolutions :
          Begin([name |-> "set_config", address |-> Self,
                 alarm_temp_low |-> low, alarm_temp_high |-> high,
                 resolution |-> resolution])
    /\ BusStep(<< >>, ev_send_command(WRITE_SCRATCHPAD, Self, "ok"),
               "set_config_high", NoRet)
    /\ UNCHANGED <<slot, dev>>

\* Fault: the high threshold is written twice, the low threshold never.
ConfigBytes_high_repeated ==
    << i8_to_ne_bytes(call.alarm_temp_high),
       i8_to_ne_bytes(call.alarm_temp_high),
       to_config_register(call.resolution) >>

\* The bytes the running set_config writes.
ConfigBytes ==
    set_config_bytes(call.alarm_temp_low, call.alarm_temp_high, call.resolution)

set_config_write_high ==
    /\ pc = "set_config_high"
    /\ BusStep(trace, ev_write_byte(ConfigBytes[1], "ok"), "set_config_low", NoRet)
    /\ UNCHANGED <<slot, dev, call, scratchpad, retries>>

set_config_write_low ==
    /\ pc = "set_config_low"
    /\ BusStep(trace, ev_write_byte(ConfigBytes[2], "ok"), "set_config_resolution", NoRet)
    /\ UNCHANGED <<slot, dev, call, scratchpad, retries>>

\* Fault: the written configuration is verified by reading the scratchpad back.
set_config_write_resolution_verified ==
    /\ pc = "set_config_resolution"
    /\ BusStep(Append(trace, ev_write_byte(ConfigBytes[3], "ok")),
               ev_read_bytes(<< >>, "ok"), "idle", Ok(Unit))
    /\ UNCHANGED <<slot, dev, call, scratchpad, retries>>

set_config_write_resolution ==
    /\ pc = "set_config_resolution"
    /\ BusStep(trace, ev_write_byte(ConfigBytes[3], "ok"), "idle", Ok(Unit))
    /\ UNCHANGED <<slot, dev, call, scratchpad, retries>>

\* Fault: the method of the handle passes None for the address.
TargetedCalls_unaddressed(method, simultaneous) ==
    (IF dev.some THEN {[name |-> method, address |-> None]} ELSE {})
        \cup {[name |-> simultaneous, address |-> None]}

\* Entries of save_to_eeprom / recall_from_eeprom: the method of the handle
\* passes Some(&self.address), the simultaneous_* function passes None.
TargetedCalls(method, simultaneous) ==
    (IF dev.some THEN {[name |-> method, address |-> Self]} ELSE {})
        \cup {[name |-> simultaneous, address |-> None]}

save_to_eeprom_send_command ==
    /\ \E c \in TargetedCalls("save_to_eeprom", "simultaneous_save_to_eeprom") :
          /\ Begin(c)
          /\ BusStep(<< >>, ev_send_command(COPY_SCRATCHPAD, c.address, "ok"),
                     "save_delay", NoRet)
    /\ UNCHANGED <<slot, dev>>

\* Fault: success is reported without the delay.
save_to_eeprom_delay_skipped ==
    /\ pc = "save_delay"
    /\ pc' = "idle"
    /\ ret' = Ok(Unit)
    /\ UNCHANGED <<slot, dev, call, trace, scratchpad, retries>>

save_to_eeprom_delay ==
    /\ pc = "save_delay"
    /\ trace' = Append(trace, ev_delay_us(SAVE_DELAY_US))
    /\ pc' = "idle"
    /\ ret' = Ok(Unit)
    /\ UNCHANGED <<slot, dev, call, scratchpad, retries>>

recall_from_eeprom_send_command ==
    /\ \E c \in TargetedCalls("recall_from_eeprom", "simultaneous_recall_from_eeprom") :
          /\ Begin(c)
          /\ BusStep(<< >>, ev_send_command(RECALL_EEPROM, c.address, "ok"),
                     "recall_poll", NoRet)
    /\ UNCHANGED <<slot, dev>>

\* Fault: the sense of the completion bit is inverted.
recall_poll_body_inverted(r) ==
    IF r.kind = "err" THEN [return |-> TRUE, ret |-> r]
    ELSE IF r.val = 0 THEN [return |-> TRUE, ret |-> Ok(Unit)]
    ELSE [return |-> FALSE, ret |-> NoRet]

\* Fault: a failed read counts as a poll attempt that saw no completion.
recall_poll_body_ignoring_error(r) ==
    IF r.kind = "ok" /\ r.val = 1 THEN [return |-> TRUE, ret |-> Ok(Unit)]
    ELSE [return |-> FALSE, ret |-> NoRet]

\* Body of the poll loop on the result r of read_bit: `if read_bit()? { return Ok(()) }`
recall_poll_body(r) ==
    IF r.kind = "err" THEN [return |-> TRUE, ret |-> r]
    ELSE IF r.val = 1 THEN [return |-> TRUE, ret |-> Ok(Unit)]
    ELSE [return |-> FALSE, ret |-> NoRet]

\* Results read_bit can have, with the event each leaves in the trace.
ReadBitOutcomes ==
    {[r |-> Ok(b), ev |-> ev_read_bit(b, "ok")] : b \in {0, 1}}
        \cup {[r |-> Err(e), ev |-> [op |-> "read_bit", res |-> e]] : e \in BusErrors}

recall_from_eeprom_read_bit ==
    /\ pc = "recall_poll"
    /\ retries < max_retries(slot)
    /\ \E o \in ReadBitOutcomes :
          /\ trace' = Append(trace, o.ev)
          /\ ret' = recall_poll_body(o.r).ret
          /\ pc' = IF recall_poll_body(o.r).return THEN "idle" ELSE "recall_poll"
          /\ retries' = IF recall_poll_body(o.r).return THEN retries ELSE retries + 1
    /\ UNCHANGED <<slot, dev, call, scratchpad>>

recall_from_eeprom_timeout ==
    /\ pc = "recall_poll"
    /\ retries >= max_retries(slot)
    /\ ret' = Err("Timeout")
    /\ pc' = "idle"
    /\ UNCHANGED <<slot, dev, call, trace, scratchpad, retries>>

start_simultaneous_temp_measurement_reset ==
    /\ Begin([name |-> "start_simultaneous_temp_measurement", address |-> None])
    /\ BusStep(<< >>, ev_reset("ok"), "simultaneous_skip_address", NoRet)
    /\ UNCHANGED <<slot, dev>>

\* Fault: the command is written without the skip-address signal.
start_simultaneous_temp_measurement_skip_address_omitted ==
    /\ pc = "simultaneous_skip_address"
    /\ BusStep(trace, ev_write_byte(CONVERT_TEMP, "ok"), "idle", Ok(Unit))
    /\ UNCHANGED <<slot, dev, call, scratchpad, retries>>

start_simultaneous_temp_measurement_skip_address ==
    /\ pc = "simultaneous_skip_address"
    /\ BusStep(trace, ev_skip_address("ok"), "simultaneous_write_byte", NoRet)
    /\ UNCHANGED <<slot, dev, call, scratchpad, retries>>

start_simultaneous_temp_measurement_write_byte ==
    /\ pc = "simultaneous_write_byte"
    /\ BusStep(trace, ev_write_byte(CONVERT_TEMP, "ok"), "idle", Ok(Unit))
    /\ UNCHANGED <<slot, dev, call, scratchpad, retries>>

\* Entries of read_scratchpad: through Ds18b20Async::read_data with the
\* address of the handle, or called directly with any address.
ReadCalls ==
    (IF dev.some THEN {[name |-> "read_data", address |-> Self]} ELSE {})
        \cup {[name |-> "read_scratchpad", address |-> Some(a)] : a \in Addresses}

\* Fault: the bus is not reset before the device is addressed.
read_scratchpad_reset_omitted ==
    /\ \E c \in ReadCalls :
          /\ Begin(c)
          /\ BusStep(<< >>, ev_match_address(c.address.val, "ok"),
                     "read_write_byte", NoRet)
    /\ UNCHANGED <<slot, dev>>

read_scratchpad_reset ==
    /\ \E c \in ReadCalls : Begin(c)
    /\ BusStep(<< >>, ev_reset("ok"), "read_match_address", NoRet)
    /\ UNCHANGED <<slot, dev>>

\* Fault: every device is addressed instead of the one given.
read_scratchpad_match_address_skipped ==
    /\ pc = "read_match_address"
    /\ BusStep(trace, ev_skip_address("ok"), "read_write_byte", NoRet)
    /\ UNCHANGED <<slot, dev, call, scratchpad, retries>>

read_scratchpad_match_address ==
    /\ pc = "read_match_address"
    /\ BusStep(trace, ev_match_address(call.address.val, "ok"), "read_write_byte", NoRet)
    /\ UNCHANGED <<slot, dev, call, scratchpad, retries>>

read_scratchpad_write_byte ==
    /\ pc = "read_write_byte"
    /\ BusStep(trace, ev_write_byte(READ_SCRATCHPAD, "ok"), "read_read_bytes", NoRet)
    /\ UNCHANGED <<slot, dev, call, scratchpad, retries>>

read_scratchpad_read_bytes ==
    /\ pc = "read_read_bytes"
    /\ \/ \E data \in ReadInputs :
             /\ trace' = Append(trace, ev_read_bytes(data, "ok"))
             /\ scratchpad' = data
             /\ pc' = "read_check_crc8"
             /\ ret' = NoRet
       \/ \E e \in BusErrors :
             /\ trace' = Append(trace, [op |-> "read_bytes", res |-> e])
             /\ scratchpad' = scratchpad
             /\ pc' = "idle"
             /\ ret' = Err(e)
    /\ UNCHANGED <<slot, dev, call, retries>>

\* check_crc8(&scratchpad)?; Ok(scratchpad) -- and, in read_data, the `?` on
\* the result of read_scratchpad
read_scratchpad_check_crc8 ==
    /\ pc = "read_check_crc8"
    /\ LET r == read_scratchpad_result(scratchpad)
       IN IF r.kind = "ok" /\ call.name = "read_data"
          THEN pc' = "read_data_decode" /\ ret' = NoRet
          ELSE pc' = "idle" /\ ret' = r
    /\ UNCHANGED <<slot, dev, call, trace, scratchpad, retries>>

read_data_decode_scratchpad ==
    /\ pc = "read_data_decode"
    /\ ret' = read_data_decode(scratchpad)
    /\ pc' = "idle"
    /\ UNCHANGED <<slot, dev, call, trace, scratchpad, retries>>

Next ==
    \/ Ds18b20Async_new
    \/ start_temp_measurement
    \/ set_config_send_command
    \/ set_config_write_high
    \/ set_config_write_low
    \/ set_config_write_resolution
    \/ save_to_eeprom_send_command
    \/ save_to_eeprom_delay
    \/ recall_from_eeprom_send_command
    \/ recall_from_eeprom_read_bit
    \/ recall_from_eeprom_timeout
    \/ start_simultaneous_temp_measurement_reset
    \/ start_simultaneous_temp_measurement_skip_address
    \/ start_simultaneous_temp_measurement_write_byte
    \/ read_scratchpad_reset
    \/ read_scratchpad_match_address
    \/ read_scratchpad_write_byte
    \/ read_scratchpad_read_bytes
    \/ read_scratchpad_check_crc8
    \/ read_data_decode_scratchpad

Spec == Init /\ [][Next]_vars

(***************************************************************************)
(* The scratchpad codec on its own: set_config and read_data run against a *)
(* transport that raises no error, over wide ranges of inputs.  A device   *)
(* stores the three bytes written after WRITE_SCRATCHPAD in bytes 2..4 of  *)
(* its scratchpad and answers READ_SCRATCHPAD with the framed image; the   *)
(* wire may invert one bit of the answer.                                  *)
(***************************************************************************)
\* Thresholds given to set_config: every value for one of the two while the
\* other ranges over a few.
CodecAlarmPairs ==
    {<<low, high>> : low \in I8, high \in {-128, 25}}
        \cup {<<low, high>> : low \in {-10, 127}, high \in I8}

\* Temperature registers of framed images.
CodecRawTemps == {0, 1, 50, 400, 1360, 2000, 32767, 32768, 64656, 65374, 65535}

\* Images whose answer the wire may corrupt.
CodecFlipBlocks ==
    {Block(raw, th, 246, config) :
        raw \in {0, 400, 65374, 65535}, th \in {25, 128},
        config \in {31, 63, 95, 127}}

\* Images a device may answer with: valid and invalid configuration bytes.
CodecBlocks ==
    {Block(raw, 25, tl, config) :
        raw \in CodecRawTemps, tl \in {0, 246}, config \in {31, 63, 95, 127}}
    \cup {Block(400, 25, 246, config) : config \in Bytes}
    \cup CodecFlipBlocks

\* read_data when every transport call succeeds and read_bytes returns `block`
read_data_of(block) ==
    LET read == read_scratchpad_result(block)
    IN IF read.kind = "ok" THEN read_data_decode(read.val) ELSE read

CodecInit == Init /\ slot = 70

\* set_config with every transport call succeeding: the bytes written after
\* the command.
codec_set_config ==
    /\ pc = "idle" /\ call.name = "none"
    /\ \E p \in CodecAlarmPairs, resolution \in Resolutions :
          /\ call' = [name |-> "set_config", alarm_temp_low |-> p[1],
                      alarm_temp_high |-> p[2], resolution |-> resolution]
          /\ trace' = [i \in 1..3 |->
                         ev_write_byte(set_config_bytes(p[1], p[2], resolution)[i], "ok")]
    /\ pc' = "codec_written"
    /\ ret' = Ok(Unit)
    /\ UNCHANGED <<slot, dev, scratchpad, retries>>

\* The device answers a later READ_SCRATCHPAD with the bytes it was written.
codec_frame_written ==
    /\ pc = "codec_written"
    /\ scratchpad' = Block(400, trace[1].byte, trace[2].byte, trace[3].byte)
    /\ pc' = "codec_framed"
    /\ ret' = NoRet
    /\ UNCHANGED <<slot, dev, call, trace, retries>>

\* The device answers READ_SCRATCHPAD with some image.
codec_frame ==
    /\ pc = "idle" /\ call.name = "none"
    /\ \E block \in CodecBlocks : scratchpad' = block
    /\ call' = [name |-> "frame"]
    /\ pc' = "codec_framed"
    /\ UNCHANGED <<slot, dev, trace, ret, retries>>

\* One bit of the answer is inverted on the wire.
codec_flip_bit ==
    /\ pc = "codec_framed" /\ call.name = "frame"
    /\ scratchpad \in CodecFlipBlocks
    /\ \E k \in 0..71 :
          /\ scratchpad' = FlipBit(scratchpad, k)
          /\ call' = [name |-> "flipped", original |-> scratchpad, bit |-> k]
    /\ pc' = "codec_flipped"
    /\ UNCHANGED <<slot, dev, trace, ret, retries>>

codec_read_data ==
    /\ pc \in {"codec_framed", "codec_flipped"}
    /\ ret' = read_data_of(scratchpad)
    /\ pc' = "codec_read"
    /\ UNCHANGED <<slot, dev, call, trace, scratchpad, retries>>

CodecNext ==
    \/ codec_set_config
    \/ codec_frame_written
    \/ codec_frame
    \/ codec_flip_bit
    \/ codec_read_data

SpecCodec == CodecInit /\ [][CodecNext]_vars

(***************************************************************************)
(* Properties.                                                             *)
(***************************************************************************)
RecallOps == {"recall_from_eeprom", "simultaneous_recall_from_eeprom"}
SaveOps == {"save_to_eeprom", "simultaneous_save_to_eeprom"}
ValidConfigBytes == {31, 63, 95, 127}

\* Number of read_bit calls the running operation has made.
BitReads == Cardinality({i \in DOMAIN trace : trace[i].op = "read_bit"})

\* A reload whose command was accepted and whose every bit read so far
\* returned 0.
PollAllZero ==
    /\ call.name \in RecallOps
    /\ Len(trace) >= 1
    /\ trace[1] = ev_send_command(RECALL_EEPROM, call.address, "ok")
    /\ \A i \in 2..Len(trace) : trace[i] = ev_read_bit(0, "ok")

\* A reload polling a bus that only returns 0 makes at most n bit reads, and
\* when it returns it returns Timeout after exactly n of them.
TimeoutAfterExactly(n) ==
    PollAllZero =>
        /\ BitReads <= n
        /\ pc = "idle" => (ret = Err("Timeout") /\ BitReads = n)

\* C1 (as stated): if every bit read after the recall opcode returns 0, reload
\* fails with Timeout after exactly ceil(10000 / slot_us) + 1 bit reads.
C1_TimeoutAfterCeilPlusOne ==
    TimeoutAfterExactly(((10000 + slot - 1) \div slot) + 1)

\* C1 (amended): if every bit read after the recall opcode returns 0, reload
\* fails with Timeout after exactly floor(10000 / slot_us) + 1 bit reads, no
\* more and no fewer.
C1_TimeoutAfterFloorPlusOne ==
    TimeoutAfterExactly((10000 \div slot) + 1)

C1_Witness ==
    /\ PollAllZero
    /\ pc = "idle"
    /\ ret = Err("Timeout")
    /\ slot = 70
    /\ call.address = None

\* C2: persist reports success only after the copy-scratchpad opcode was sent
\* to its target and one full 10 ms delay followed it; the only return without
\* the delay is the error return of the failed opcode transmission.
C2_PersistWaitsFullDelay ==
    (call.name \in SaveOps /\ pc = "idle") =>
        \/ /\ ret = Ok(Unit)
           /\ trace = << ev_send_command(COPY_SCRATCHPAD, call.address, "ok"),
                         [op |-> "delay_us", us |-> 10000, res |-> "ok"] >>
        \/ /\ ret.kind = "err"
           /\ Len(trace) = 1
           /\ trace[1].op = "send_command"
           /\ trace[1].res = ret.err
           /\ ret.err \in BusErrors

C2_Witness ==
    /\ call.name = "save_to_eeprom"
    /\ pc = "idle"
    /\ ret = Ok(Unit)
    /\ Len(trace) = 2

\* C3: construction succeeds if and only if the low (family-code) byte of the
\* address equals the sensor family code; on success the handle holds exactly
\* that address, on failure the result is the family-mismatch error and
\* carries no handle.
C3_ConstructionIffFamilyCode ==
    call.name = "new" =>
        LET a == call.address.val
        IN /\ ret.kind = "ok" <=> (a % 256 = FAMILY_CODE)
           /\ ret.kind = "ok" => (ret.val = [address |-> a] /\ dev = Some([address |-> a]))
           /\ ret.kind # "ok" => ret = Err("FamilyCodeMismatch")

\* Rejected although 0x28 is the second byte of the address; the handle built
\* earlier is still the caller's.
C3_Witness ==
    /\ call.name = "new"
    /\ call.address.val = 16 + 256 * FAMILY_CODE
    /\ ret = Err("FamilyCodeMismatch")
    /\ dev.some

\* A block whose CRC byte matches its first eight bytes.
ChecksumValid(block) == crc8(block) = 0

\* C4: inverting any single bit of a checksum-valid block that decodes
\* successfully makes the read fail with the checksum error; no reading is
\* returned.
C4_SingleBitFlipRejected ==
    ( /\ pc = "codec_read"
      /\ call.name = "flipped"
      /\ ChecksumValid(call.original)
      /\ call.original[5] \in ValidConfigBytes )
        => ret = Err("CrcMismatch")

\* A flip in the CRC byte itself (bit 6 of byte 8).
C4_Witness ==
    /\ pc = "codec_read"
    /\ call.name = "flipped"
    /\ call.bit = 70
    /\ call.original = Block(65374, 128, 246, 95)
    /\ ret = Err("CrcMismatch")

\* C5: a checksum-valid block whose byte 4 is none of the four resolution
\* encodings is rejected with the checksum error; no reading with some
\* resolution is returned for it.
C5_InvalidResolutionRejected ==
    ( /\ pc = "codec_read"
      /\ ChecksumValid(scratchpad)
      /\ scratchpad[5] \notin ValidConfigBytes )
        => ret = Err("CrcMismatch")

\* 0x9F: the low five bits and bits 5-6 of an encoding, with bit 7 set.
C5_Witness ==
    /\ pc = "codec_read"
    /\ ChecksumValid(scratchpad)
    /\ scratchpad[5] = 159
    /\ ret = Err("CrcMismatch")

\* The divisor the declared resolution selects.
DivisorOfConfig(config) ==
    CASE config = 31 -> 2
      [] config = 63 -> 4
      [] config = 95 -> 8
      [] config = 127 -> 16

\* C6: for a checksum-valid block with a valid resolution byte the decoded
\* temperature is R / D, R the unsigned 16-bit value formed little-endian from
\* bytes 0-1 and D the divisor selected by byte 4.
C6_ResolutionScaleLaw ==
    ( /\ pc = "codec_read"
      /\ ChecksumValid(scratchpad)
      /\ scratchpad[5] \in ValidConfigBytes )
        => /\ ret.kind = "ok"
           /\ ret.val.temperature.num * DivisorOfConfig(scratchpad[5])
                = (scratchpad[1] + 256 * scratchpad[2]) * ret.val.temperature.den

\* The power-on register 0x0550 read at 9 bits: 1360 / 2 = 680.
C6_Witness ==
    /\ pc = "codec_read"
    /\ scratchpad = Block(1360, 25, 246, 31)
    /\ ret.kind = "ok"
    /\ ret.val.temperature.num = 680 * ret.val.temperature.den

\* C7: the three bytes set_config writes, stored in bytes 2-4 of a
\* checksum-valid block, decode to the thresholds and the resolution that
\* were given to set_config.
C7_ConfigRoundTrip ==
    (pc = "codec_read" /\ call.name = "set_config") =>
        /\ ret.kind = "ok"
        /\ ret.val.alarm_temp_high = call.alarm_temp_high
        /\ ret.val.alarm_temp_low = call.alarm_temp_low
        /\ ret.val.resolution = call.resolution

\* high = 25, low = -10, 12 bits, register 0x0190: 25.0 C.
C7_Witness ==
    /\ pc = "codec_read"
    /\ call.name = "set_config"
    /\ call.alarm_temp_high = 25
    /\ call.alarm_temp_low = -10
    /\ call.resolution = "Bits12"
    /\ scratchpad[1] = 144 /\ scratchpad[2] = 1
    /\ ret.kind = "ok"
    /\ ret.val.alarm_temp_high = 25
    /\ ret.val.alarm_temp_low = -10
    /\ ret.val.resolution = "Bits12"
    /\ ret.val.temperature.num = 25 * ret.val.temperature.den

\* The register byte of a resolution.
ConfigByteOf(resolution) ==
    CASE resolution = "Bits9" -> 31
      [] resolution = "Bits10" -> 63
      [] resolution = "Bits11" -> 95
      [] resolution = "Bits12" -> 127

\* The two's-complement byte of a signed threshold.
ByteOfI8(v) == IF v < 0 THEN v + 256 ELSE v

\* C8: a successful set_config made exactly these transport calls: the
\* write-scratchpad command addressed to the device of the handle, then the
\* high threshold, the low threshold and the resolution register byte; nothing
\* else was written, nothing was read.
C8_WriteConfigSequence ==
    (call.name = "set_config" /\ pc = "idle" /\ ret.kind = "ok") =>
        /\ ret = Ok(Unit)
        /\ trace = << ev_send_command(WRITE_SCRATCHPAD, Some(dev.val.address), "ok"),
                      ev_write_byte(ByteOfI8(call.alarm_temp_high), "ok"),
                      ev_write_byte(ByteOfI8(call.alarm_temp_low), "ok"),
                      ev_write_byte(ConfigByteOf(call.resolution), "ok") >>

C8_Witness ==
    /\ call.name = "set_config"
    /\ pc = "idle"
    /\ ret = Ok(Unit)
    /\ call.alarm_temp_high = -128
    /\ call.alarm_temp_low = 25
    /\ call.resolution = "Bits10"
    /\ Len(trace) = 4

\* C9: start_temp_measurement makes one transport call, the convert-temperature
\* command addressed to the device of the handle, and returns with the outcome
\* of that call: no delay and no read follows the command.
C9_StartConversionDoesNotWait ==
    call.name = "start_temp_measurement" =>
        /\ pc = "idle"
        /\ Len(trace) = 1
        /\ trace[1].op = "send_command"
        /\ trace[1].command = CONVERT_TEMP
        /\ trace[1].address = Some(dev.val.address)
        /\ ret = IF trace[1].res = "ok" THEN Ok(Unit) ELSE Err(trace[1].res)

C9_Witness ==
    /\ call.name = "start_temp_measurement"
    /\ pc = "idle"
    /\ ret = Ok(Unit)
    /\ trace = << ev_send_command(CONVERT_TEMP, Some(dev.val.address), "ok") >>

\* C10: a transport call that failed is the last call of its operation: the
\* operation has returned, its result is the error of that call (no value),
\* and no write, read or delay follows it.
C10_FirstErrorAborts ==
    \A i \in DOMAIN trace :
        trace[i].res # "ok" =>
            /\ i = Len(trace)
            /\ pc = "idle"
            /\ ret = Err(trace[i].res)

\* A reload whose third poll read failed after two reads of 0.
C10_Witness ==
    /\ call.name \in RecallOps
    /\ Len(trace) = 4
    /\ trace[2] = ev_read_bit(0, "ok")
    /\ trace[3] = ev_read_bit(0, "ok")
    /\ trace[4] = [op |-> "read_bit", res |-> "PinError"]
    /\ pc = "idle"
    /\ ret = Err("PinError")

\* The temperature register read as a signed two's-complement 16-bit value.
SignedRegister(block) ==
    LET r == block[1] + 256 * block[2]
    IN IF r >= 32768 THEN r - 65536 ELSE r

\* C11: the temperature register is interpreted as a signed two's-complement
\* quantity: a reading returned for a checksum-valid block is the signed
\* register value divided by the divisor of the declared resolution, so a
\* register with the sign bit set (0xFF5E at 12 bits) reads as a negative
\* temperature (-10.125).
C11_RegisterReadAsSigned ==
    (call.name = "read_data" /\ pc = "idle" /\ ret.kind = "ok") =>
        ret.val.temperature.num * DivisorOfConfig(scratchpad[5])
            = SignedRegister(scratchpad) * ret.val.temperature.den

\* C12: in a reload no bit is read before the recall command was accepted; a
\* bit read that returned 1 is the last call of the operation, which then has
\* returned success; success is returned only so, after exactly k reads when
\* the first 1 came on read k, all within the poll bound; Timeout is returned
\* only when no read saw a 1.
C12_ReloadCompletion ==
    call.name \in RecallOps =>
        /\ \A i \in DOMAIN trace :
              trace[i].op = "read_bit" =>
                  /\ i >= 2
                  /\ trace[1] = ev_send_command(RECALL_EEPROM, call.address, "ok")
                  /\ i - 1 <= (10000 \div slot) + 1
                  /\ trace[i] = ev_read_bit(1, "ok") =>
                        (i = Len(trace) /\ pc = "idle" /\ ret = Ok(Unit))
        /\ ret = Ok(Unit) =>
              /\ pc = "idle"
              /\ Len(trace) >= 2
              /\ trace[Len(trace)] = ev_read_bit(1, "ok")
              /\ \A i \in 2..(Len(trace) - 1) : trace[i] = ev_read_bit(0, "ok")
              /\ BitReads = Len(trace) - 1
        /\ ret = Err("Timeout") =>
              \A i \in 2..Len(trace) : trace[i] = ev_read_bit(0, "ok")

\* Completion seen on the third read.
C12_Witness ==
    /\ call.name = "recall_from_eeprom"
    /\ pc = "idle"
    /\ ret = Ok(Unit)
    /\ BitReads = 3
    /\ trace[2] = ev_read_bit(0, "ok")
    /\ trace[3] = ev_read_bit(0, "ok")
    /\ trace[4] = ev_read_bit(1, "ok")

(***************************************************************************)
(* The driver run to completion: the executor keeps polling the future of  *)
(* a reload, and the transport answers every call, so a step of the poll   *)
(* loop that can be taken is eventually taken.  Every step of the loop     *)
(* changes pc or retries.                                                  *)
(***************************************************************************)
FairSpec ==
    /\ Spec
    /\ WF_<<pc, retries>>(recall_from_eeprom_read_bit)
    /\ WF_<<pc, retries>>(recall_from_eeprom_timeout)

\* A reload has returned: Done, TimedOut, or a transport error.
ReloadReturned ==
    /\ call.name \in RecallOps
    /\ pc = "idle"
    /\ \/ ret.kind = "ok"
       \/ ret.kind = "err" /\ ret.err \in {"Timeout"} \cup BusErrors

\* C13: a reload that has sent its command never makes more bit reads than
\* the poll bound, every iteration that does not return advances the
\* iteration count, and the reload reaches Done, TimedOut or a transport
\* error by itself.
C13_ReloadTerminates ==
    /\ [](call.name \in RecallOps => BitReads <= (10000 \div slot) + 1)
    /\ [][(pc = "recall_poll" /\ pc' = "recall_poll") => retries' = retries + 1]_<<pc, retries>>
    /\ (pc = "recall_poll") ~> ReloadReturned

\* Timed out after the full number of reads, none of which failed.
C13_Witness ==
    /\ call.name = "recall_from_eeprom"
    /\ pc = "idle"
    /\ ret = Err("Timeout")
    /\ BitReads = (10000 \div slot) + 1
    /\ slot = 100

ReadOps == {"read_data", "read_scratchpad"}

\* The transport calls of a scratchpad read, in order.
ReadSteps == << "reset", "match_address", "write_byte", "read_bytes" >>

\* C14: a scratchpad read makes its transport calls in the order reset,
\* addressing of the target, read-scratchpad command, read of 9 bytes; the
\* checksum of the 9 bytes is validated only after all four succeeded, and a
\* block is decoded into a reading (or returned) only when its ninth byte is
\* the checksum of the first eight.
C14_ReadOrder ==
    call.name \in ReadOps =>
        /\ Len(trace) <= 4
        /\ \A i \in DOMAIN trace : trace[i].op = ReadSteps[i]
        /\ Len(trace) >= 2 => trace[2].address = call.address.val
        /\ Len(trace) >= 3 => trace[3].byte = READ_SCRATCHPAD
        /\ pc \in {"read_check_crc8", "read_data_decode"} =>
              /\ Len(trace) = 4
              /\ \A i \in 1..4 : trace[i].res = "ok"
              /\ Len(trace[4].data) = 9
              /\ scratchpad = trace[4].data
        /\ (pc = "read_data_decode" \/ ret.kind = "ok") =>
              /\ Len(trace) = 4
              /\ scratchpad = trace[4].data
              /\ scratchpad[9] = crc8(SubSeq(scratchpad, 1, 8))
        /\ (ret.kind = "ok" /\ call.name = "read_data") =>
              ret.val.resolution \in Resolutions
        /\ (ret.kind = "ok" /\ call.name = "read_scratchpad") =>
              ret.val = scratchpad

\* The power-on image read through the handle and decoded.
C14_Witness ==
    /\ call.name = "read_data"
    /\ pc = "idle"
    /\ ret.kind = "ok"
    /\ scratchpad = <<80, 5, 75, 70, 127, 255, 12, 16, 28>>
    /\ ret.val.temperature.num = 85 * ret.val.temperature.den

\* The transport calls of start_simultaneous_temp_measurement, in order.
SimultaneousSteps == << "reset", "skip_address", "write_byte" >>

\* C15: start_simultaneous_temp_measurement makes exactly the calls reset,
\* skip_address, write_byte(CONVERT_TEMP) in that order and returns right
\* after the third (or at the first that fails): no device is selected,
\* nothing is read and nothing is waited for.
C15_SimultaneousStartThreeSteps ==
    call.name = "start_simultaneous_temp_measurement" =>
        /\ Len(trace) <= 3
        /\ \A i \in DOMAIN trace :
              /\ trace[i].op = SimultaneousSteps[i]
              /\ trace[i].op \notin {"match_address", "send_command",
                                     "read_bytes", "read_bit", "delay_us"}
              /\ i < Len(trace) => trace[i].res = "ok"
        /\ Len(trace) = 3 => trace[3].byte = CONVERT_TEMP /\ pc = "idle"
        /\ pc = "idle" =>
              /\ Len(trace) >= 1
              /\ ret = IF trace[Len(trace)].res = "ok"
                       THEN Ok(Unit)
                       ELSE Err(trace[Len(trace)].res)
        /\ ret.kind = "ok" =>
              /\ Len(trace) = 3
              /\ \A i \in 1..3 : trace[i].res = "ok"

\* A broadcast conversion start that ran to its end.
C15_Witness ==
    /\ call.name = "start_simultaneous_temp_measurement"
    /\ pc = "idle"
    /\ ret = Ok(Unit)
    /\ trace = << ev_reset("ok"), ev_skip_address("ok"),
                  ev_write_byte(CONVERT_TEMP, "ok") >>

\* Operations invoked on a handle, and operations for every device on the bus.
HandleOps ==
    {"start_temp_measurement", "read_data", "set_config", "save_to_eeprom",
     "recall_from_eeprom"}

BroadcastOps ==
    {"start_simultaneous_temp_measurement", "simultaneous_save_to_eeprom",
     "simultaneous_recall_from_eeprom"}

\* C16: an operation invoked on a handle addresses the address of the handle
\* in every addressing call it makes and never skips addressing; an operation
\* for all devices skips addressing and never selects a device.
C16_AddressingDiscipline ==
    /\ call.name \in HandleOps =>
          /\ dev.some
          /\ call.address = Some(dev.val.address)
          /\ \A i \in DOMAIN trace :
                /\ trace[i].op = "send_command" =>
                      trace[i].address = Some(dev.val.address)
                /\ trace[i].op = "match_address" =>
                      trace[i].address = dev.val.address
                /\ trace[i].op # "skip_address"
          /\ Len(trace) >= 1 =>
                \/ trace[1].op = "send_command"
                \/ /\ trace[1].op = "reset"
                   /\ Len(trace) >= 2 => trace[2].op = "match_address"
    /\ call.name \in BroadcastOps =>
          /\ \A i \in DOMAIN trace :
                /\ trace[i].op = "send_command" => trace[i].address = None
                /\ trace[i].op # "match_address"
          /\ Len(trace) >= 1 =>
                \/ trace[1].op = "send_command"
                \/ /\ trace[1].op = "reset"
                   /\ Len(trace) >= 2 => trace[2].op = "skip_address"

\* A handle for the device of serial 1 persisted its configuration.
C16_Witness ==
    /\ call.name = "save_to_eeprom"
    /\ pc = "idle"
    /\ ret = Ok(Unit)
    /\ dev.val.address = FAMILY_CODE + 256 * 1
    /\ trace[1] = ev_send_command(COPY_SCRATCHPAD, Some(dev.val.address), "ok")

\* C17 as stated: the raw scratchpad read can be called with one address or
\* with none, and precedes the read-scratchpad command with match_address of
\* the address given, or with skip_address when none is given.
C17_AddressingChoiceOnRawRead ==
    /\ pc = "idle" =>
          /\ \E a \in Addresses :
                [name |-> "read_scratchpad", address |-> Some(a)] \in ReadCalls
          /\ \E c \in ReadCalls : c.name = "read_scratchpad" /\ ~c.address.some
    /\ (call.name = "read_scratchpad" /\ Len(trace) >= 3) =>
          trace[2] = IF call.address.some
                     THEN ev_match_address(call.address.val, "ok")
                     ELSE ev_skip_address("ok")

\* C17 as the code has it: read_scratchpad takes `address: &Address`, so every
\* scratchpad read, raw or through the handle, is given one address; the
\* read-scratchpad command is its third call, right after a successful
\* match_address of that address, and skip_address is never called.
C17_RawReadSelectsOneDevice ==
    /\ pc = "idle" => \A c \in ReadCalls : c.address.some
    /\ call.name \in ReadOps =>
          /\ call.address.some
          /\ \A i \in DOMAIN trace :
                /\ trace[i].op # "skip_address"
                /\ trace[i].op = "write_byte" =>
                      /\ i = 3
                      /\ trace[i].byte = READ_SCRATCHPAD
                      /\ trace[2] = ev_match_address(call.address.val, "ok")

\* A raw read of a device of another family (family code 16) that got as
\* far as the command.
C17_Witness ==
    /\ call.name = "read_scratchpad"
    /\ call.address = Some(16 + 256 * 1)
    /\ Len(trace) >= 3
    /\ trace[2] = ev_match_address(16 + 256 * 1, "ok")
    /\ trace[3] = ev_write_byte(READ_SCRATCHPAD, "ok")

WrittenAt(i) == IF i = 1 THEN trace[1].command ELSE trace[i].byte

\* The order set_config is to write in.
ConfigSequence ==
    << WRITE_SCRATCHPAD, ByteOfI8(call.alarm_temp_high),
       ByteOfI8(call.alarm_temp_low), ConfigByteOf(call.resolution) >>

\* C19: at every point of every set_config, aborted by a transport error or
\* not, what it has put on the bus is a prefix of write-scratchpad command,
\* high threshold, low threshold, resolution byte: the i-th call carries the
\* i-th of these, every call before the last one succeeded, an error ends the
\* operation at once, and success is returned only with all four written.
C19_WriteConfigPrefixClosed ==
    call.name = "set_config" =>
        /\ Len(trace) \in 1..4
        /\ trace[1].op = "send_command"
        /\ \A i \in 2..Len(trace) : trace[i].op = "write_byte"
        /\ \A i \in DOMAIN trace :
              /\ WrittenAt(i) = ConfigSequence[i]
              /\ i < Len(trace) => trace[i].res = "ok"
        /\ trace[Len(trace)].res # "ok" =>
              pc = "idle" /\ ret = Err(trace[Len(trace)].res)
        /\ (trace[Len(trace)].res = "ok" /\ Len(trace) < 4) =>
              pc # "idle" /\ ret = NoRet
        /\ ret.kind = "ok" =>
              Len(trace) = 4 /\ trace[4].res = "ok" /\ pc = "idle"

\* A run aborted at the low threshold: the command and the high threshold
\* went out, the resolution byte never did.
C19_Witness ==
    /\ call.name = "set_config"
    /\ call.alarm_temp_high = -10
    /\ call.alarm_temp_low = -128
    /\ pc = "idle"
    /\ ret = Err("PinError")
    /\ Len(trace) = 3
    /\ trace[2] = ev_write_byte(246, "ok")
    /\ trace[3] = [ev_write_byte(128, "ok") EXCEPT !.res = "PinError"]

=============================================================================
